---- MODULE Spec2Model ----
(***************************************************************************)
(* A model of src/src/tokenizer.rs: the LOLCODE tokenizer (Tokenizer::next *)
(* and the tokenize driver) and the Value coercion cast_troof.             *)
(*                                                                         *)
(* A character is a one-character string; the input is a sequence of       *)
(* characters and the Peekable<Chars> iterator is the number of characters *)
(* already consumed (clone() copies that number).  U+0007 has no TLA+      *)
(* escape and is written BEL.                                              *)
(***************************************************************************)
EXTENDS Integers, Sequences, FiniteSets, TLC

VARIABLES input, pos, tokens, ret, calls, val, troof

vars == <<input, pos, tokens, ret, calls, val, troof>>

(***************************************************************************)
(* Characters                                                              *)
(***************************************************************************)
LF == "\n"
TAB == "\t"
BEL == "BEL"
QUOTE == "\""
\* Option<char>::None
NoChar == ""

Upper == {"A","B","C","D","E","F","G","H","I","J","K","L","M",
          "N","O","P","Q","R","S","T","U","V","W","X","Y","Z"}
Lower == {"a","b","c","d","e","f","g","h","i","j","k","l","m",
          "n","o","p","q","r","s","t","u","v","w","x","y","z"}
Digit == {"0","1","2","3","4","5","6","7","8","9"}

\* 'a'...'z' | 'A'...'Z' | '_'
IsIdentStart(c) == c \in Lower \/ c \in Upper \/ c = "_"
\* 'a'...'z' | 'A'...'Z' | '0'...'9' | '_'
IsIdentChar(c) == IsIdentStart(c) \/ c \in Digit

is_space(c) == c = " " \/ c = TAB

(***************************************************************************)
(* Value, Token, Error: records of one shape each, so that any two can be  *)
(* compared.                                                               *)
(***************************************************************************)
\* f64 payload: a class, a sign, and for a finite value the decimal
\* mantissa digits (no leading or trailing zeros) with a decimal exponent.
Flt(cls, neg, m, e) == [cls |-> cls, neg |-> neg, m |-> m, e |-> e]
FltZero == Flt("zero", FALSE, <<>>, 0)
\* i64 payload: sign and decimal digits without leading zeros (<<>> is 0).
Int64(neg, d) == [neg |-> neg, d |-> d]
IntZero == Int64(FALSE, <<>>)

Noob == [ty |-> "Noob", str |-> <<>>, int |-> IntZero, flt |-> FltZero, b |-> FALSE]
Yarn(s) == [ty |-> "Yarn", str |-> s, int |-> IntZero, flt |-> FltZero, b |-> FALSE]
Numbr(n) == [ty |-> "Numbr", str |-> <<>>, int |-> n, flt |-> FltZero, b |-> FALSE]
Numbar(x) == [ty |-> "Numbar", str |-> <<>>, int |-> IntZero, flt |-> x, b |-> FALSE]
Troof(b) == [ty |-> "Troof", str |-> <<>>, int |-> IntZero, flt |-> FltZero, b |-> b]

\* Token::Ident(String), Token::Value(Value), and the payload-free tokens
Ident(w) == [tag |-> "Ident", name |-> w, value |-> Noob]
ValueTok(v) == [tag |-> "Value", name |-> <<>>, value |-> v]
Kw(tag) == [tag |-> tag, name |-> <<>>, value |-> Noob]

Error(kind, c, text) == [kind |-> kind, c |-> c, text |-> text]
InvalidIdent(c) == Error("InvalidIdent", c, <<>>)
InvalidNumber(w) == Error("InvalidNumber", NoChar, w)
UnclosedComment == Error("UnclosedComment", NoChar, <<>>)
UnclosedString == Error("UnclosedString", NoChar, <<>>)
UnknownEscape(c) == Error("UnknownEscape", c, <<>>)
UnknownToken == Error("UnknownToken", NoChar, <<>>)
NoError == Error("none", NoChar, <<>>)

(***************************************************************************)
(* Result<Option<Token>> of one call of next(), with the iterator position *)
(* the call leaves behind.                                                 *)
(***************************************************************************)
OkSome(t, p) == [res |-> "Some", tok |-> t, err |-> NoError, pos |-> p]
OkNone(p) == [res |-> "None", tok |-> Kw("none"), err |-> NoError, pos |-> p]
Err(e, p) == [res |-> "Err", tok |-> Kw("none"), err |-> e, pos |-> p]

(***************************************************************************)
(* str::parse::<i64>() and str::parse::<f64>() as next() uses them         *)
(***************************************************************************)
DigitSeq == <<"0","1","2","3","4","5","6","7","8","9">>
DigitVal(c) == (CHOOSE i \in 1..10 : DigitSeq[i] = c) - 1

RECURSIVE StripLeadingZeros(_)
StripLeadingZeros(d) ==
    IF d # <<>> /\ Head(d) = "0" THEN StripLeadingZeros(Tail(d)) ELSE d

RECURSIVE StripTrailingZeros(_)
StripTrailingZeros(d) ==
    IF d # <<>> /\ d[Len(d)] = "0"
    THEN StripTrailingZeros(SubSeq(d, 1, Len(d) - 1)) ELSE d

\* the longest prefix of digits of w
RECURSIVE EatDigits(_)
EatDigits(w) ==
    IF w # <<>> /\ Head(w) \in Digit THEN <<Head(w)>> \o EatDigits(Tail(w)) ELSE <<>>

AllDigits(w) == \A i \in 1..Len(w) : w[i] \in Digit

\* a < b for digit strings of the same length
RECURSIVE LexLess(_, _)
LexLess(a, b) ==
    /\ a # <<>>
    /\ \/ DigitVal(Head(a)) < DigitVal(Head(b))
       \/ Head(a) = Head(b) /\ LexLess(Tail(a), Tail(b))

\* a <= b for digit strings without leading zeros
DigitsLeq(a, b) ==
    \/ Len(a) < Len(b)
    \/ Len(a) = Len(b) /\ (a = b \/ LexLess(a, b))

\* i64::MAX = 9223372036854775807, -i64::MIN = 9223372036854775808
I64MaxDigits == <<"9","2","2","3","3","7","2","0","3","6","8","5","4","7","7","5","8","0","7">>
I64MinDigits == <<"9","2","2","3","3","7","2","0","3","6","8","5","4","7","7","5","8","0","8">>

\* the decimal value of a short digit string
RECURSIVE DigitsToNat(_)
DigitsToNat(d) ==
    IF d = <<>> THEN 0 ELSE 10 * DigitsToNat(SubSeq(d, 1, Len(d) - 1)) + DigitVal(d[Len(d)])

\* word.parse::<i64>(): an optional sign, then one or more digits, in range
ParseI64(w) ==
    LET signed == w # <<>> /\ Head(w) \in {"+", "-"}
        neg == w # <<>> /\ Head(w) = "-"
        body == IF signed THEN Tail(w) ELSE w
        d == StripLeadingZeros(body)
    IN  IF body # <<>> /\ AllDigits(body)
           /\ DigitsLeq(d, IF neg THEN I64MinDigits ELSE I64MaxDigits)
        THEN [ok |-> TRUE, v |-> Int64(neg /\ d # <<>>, d)]
        ELSE [ok |-> FALSE, v |-> IntZero]

\* the f64 nearest to mantissa m (digits) times ten to the e
MkFlt(m, e) ==
    LET a == StripLeadingZeros(m)
        b == StripTrailingZeros(a)
        x == e + (Len(a) - Len(b))
    IN  IF b = <<>> \/ x + Len(b) < -323 THEN FltZero
        ELSE IF x + Len(b) > 309 THEN Flt("inf", FALSE, <<>>, 0)
        ELSE Flt("fin", FALSE, b, x)

\* word.parse::<f64>() of a word without sign: digits [. digits] [e [sign] digits],
\* with a digit in the integral or the fractional part
ParseF64(w) ==
    LET int == EatDigits(w)
        r1 == SubSeq(w, Len(int) + 1, Len(w))
        dot == r1 # <<>> /\ Head(r1) = "."
        frac == IF dot THEN EatDigits(Tail(r1)) ELSE <<>>
        r2 == IF dot THEN SubSeq(r1, Len(frac) + 2, Len(r1)) ELSE r1
        hasExp == r2 # <<>> /\ Head(r2) \in {"e", "E"}
        r3 == IF hasExp THEN Tail(r2) ELSE r2
        expSigned == hasExp /\ r3 # <<>> /\ Head(r3) \in {"+", "-"}
        expNeg == expSigned /\ Head(r3) = "-"
        expDigits == IF expSigned THEN Tail(r3) ELSE r3
        mantOk == IF dot THEN int # <<>> \/ frac # <<>> ELSE int # <<>>
        expOk == IF hasExp THEN expDigits # <<>> /\ AllDigits(expDigits)
                 ELSE r2 = <<>>
        ex == IF hasExp /\ expOk
              THEN (IF expNeg THEN -1 ELSE 1) * DigitsToNat(expDigits) ELSE 0
    IN  IF mantOk /\ expOk
        THEN [ok |-> TRUE, v |-> MkFlt(int \o frac, ex - Len(frac))]
        ELSE [ok |-> FALSE, v |-> FltZero]

(***************************************************************************)
(* Tokenizer: trim, peek, word                                             *)
(***************************************************************************)
\* self.iter.next() where the value is dropped: one character, if any
Advance(s, p) == IF p < Len(s) THEN p + 1 ELSE p

\* self.iter.peek().cloned()
IterPeek(s, p) == IF p < Len(s) THEN s[p + 1] ELSE NoChar

RECURSIVE trim(_, _)
trim(s, p) == IF p < Len(s) /\ is_space(s[p + 1]) THEN trim(s, p + 1) ELSE p

peek(s, p) == [c |-> IterPeek(s, trim(s, p)), pos |-> trim(s, p)]

\* a faulty variant: a newline or comma before the word is read over
RECURSIVE WordLoopOverSeparator(_, _, _)
WordLoopOverSeparator(s, p, w) ==
    LET c == IterPeek(s, p)
    IN  IF c # NoChar /\ is_space(c) THEN [word |-> w, pos |-> trim(s, p)]
        ELSE IF c = NoChar THEN [word |-> w, pos |-> p]
        ELSE IF c = LF \/ c = ","
        THEN (IF w = <<>> THEN WordLoopOverSeparator(s, trim(s, p + 1), w)
              ELSE [word |-> w, pos |-> p])
        ELSE WordLoopOverSeparator(s, p + 1, Append(w, c))

RECURSIVE WordLoop(_, _, _)
WordLoop(s, p, w) ==
    LET c == IterPeek(s, p)
    IN  IF c # NoChar /\ is_space(c) THEN [word |-> w, pos |-> trim(s, p)]
        ELSE IF c = NoChar \/ c = LF \/ c = "," THEN [word |-> w, pos |-> p]
        ELSE WordLoop(s, p + 1, Append(w, c))

word(s, p) == WordLoop(s, p, <<>>)

(***************************************************************************)
(* The words next() matches, as character sequences                        *)
(***************************************************************************)
W_BTW == <<"B","T","W">>
W_OBTW == <<"O","B","T","W">>
W_TLDR == <<"T","L","D","R">>
W_I == <<"I">>
W_HAS == <<"H","A","S">>
W_A == <<"A">>
W_ITZ == <<"I","T","Z">>
W_R == <<"R">>
W_SUM == <<"S","U","M">>
W_DIFF == <<"D","I","F","F">>
W_PRODUKT == <<"P","R","O","D","U","K","T">>
W_QUOSHUNT == <<"Q","U","O","S","H","U","N","T">>
W_MOD == <<"M","O","D">>
W_BIGGR == <<"B","I","G","G","R">>
W_SMALLR == <<"S","M","A","L","L","R">>
W_BOTH == <<"B","O","T","H">>
W_EITHER == <<"E","I","T","H","E","R">>
W_WON == <<"W","O","N">>
W_ALL == <<"A","L","L">>
W_ANY == <<"A","N","Y">>
W_OF == <<"O","F">>
W_SAEM == <<"S","A","E","M">>
W_NOT == <<"N","O","T">>
W_DIFFRINT == <<"D","I","F","F","R","I","N","T">>
W_AN == <<"A","N">>
W_MKAY == <<"M","K","A","Y">>
W_O == <<"O">>
W_RLY == <<"R","L","Y">>
W_YA == <<"Y","A">>
W_MEBBE == <<"M","E","B","B","E">>
W_NO == <<"N","O">>
W_WAI == <<"W","A","I">>
W_OIC == <<"O","I","C">>
W_VISIBLE == <<"V","I","S","I","B","L","E">>
W_GIMMEH == <<"G","I","M","M","E","H">>
W_RLYQ == <<"R","L","Y","?">>
W_BANG == <<"!">>

(***************************************************************************)
(* Tokenizer::next                                                         *)
(***************************************************************************)
\* a faulty variant: ':>' and ':)' exchanged
EscapeSwapped(e) ==
    CASE e = ")" -> TAB
      [] e = ">" -> LF
      [] e = "o" -> BEL
      [] e = QUOTE -> QUOTE
      [] e = ":" -> ":"
      [] OTHER -> NoChar

\* the escape table: the character a ':' escape appends, NoChar when the
\* character after ':' is none of the five
Escape(e) ==
    CASE e = ")" -> LF
      [] e = ">" -> TAB
      [] e = "o" -> BEL
      [] e = QUOTE -> QUOTE
      [] e = ":" -> ":"
      [] OTHER -> NoChar

\* a faulty variant: the end of input inside a literal is an error
RECURSIVE StringLoopStrict(_, _, _)
StringLoopStrict(s, p, str) ==
    IF p >= Len(s) THEN Err(UnclosedString, p)
    ELSE LET c == s[p + 1]
         IN  IF c = ":"
             THEN IF p + 1 >= Len(s) THEN Err(UnclosedString, p + 1)
                  ELSE IF Escape(s[p + 2]) = NoChar
                       THEN Err(UnknownEscape(s[p + 2]), p + 2)
                       ELSE StringLoopStrict(s, p + 2, Append(str, Escape(s[p + 2])))
             ELSE IF c = QUOTE THEN OkSome(ValueTok(Yarn(str)), p + 1)
             ELSE StringLoopStrict(s, p + 1, Append(str, c))

\* the while-let loop over a string literal, entered after the leading quote;
\* when the iterator runs out the loop ends and the literal read so far is
\* returned
RECURSIVE StringLoop(_, _, _)
StringLoop(s, p, str) ==
    IF p >= Len(s) THEN OkSome(ValueTok(Yarn(str)), p)
    ELSE LET c == s[p + 1]
         IN  IF c = ":"
             THEN IF p + 1 >= Len(s) THEN Err(UnclosedString, p + 1)
                  ELSE IF Escape(s[p + 2]) = NoChar
                       THEN Err(UnknownEscape(s[p + 2]), p + 2)
                       ELSE StringLoop(s, p + 2, Append(str, Escape(s[p + 2])))
             ELSE IF c = QUOTE THEN OkSome(ValueTok(Yarn(str)), p + 1)
             ELSE StringLoop(s, p + 1, Append(str, c))

\* a faulty variant: the comment text is not skipped
LineCommentKept(s, p) == p

\* a faulty variant: the newline that ends the comment is left in the input
RECURSIVE LineCommentBeforeNewline(_, _)
LineCommentBeforeNewline(s, p) ==
    IF p >= Len(s) THEN p
    ELSE IF s[p + 1] = LF THEN p
    ELSE LineCommentBeforeNewline(s, p + 1)

\* "BTW": iter.next() until it yields a newline or None
RECURSIVE LineComment(_, _)
LineComment(s, p) ==
    IF p >= Len(s) THEN p
    ELSE IF s[p + 1] = LF THEN p + 1
    ELSE LineComment(s, p + 1)

\* the 1:1 table of the "X OF" compounds
OfToken(w) ==
    CASE w = W_SUM -> "SumOf"
      [] w = W_DIFF -> "DiffOf"
      [] w = W_PRODUKT -> "ProduktOf"
      [] w = W_QUOSHUNT -> "QuoshuntOf"
      [] w = W_MOD -> "ModOf"
      [] w = W_BIGGR -> "BiggrOf"
      [] w = W_SMALLR -> "SmallrOf"
      [] w = W_BOTH -> "BothOf"
      [] w = W_EITHER -> "EitherOf"
      [] w = W_WON -> "WonOf"
      [] w = W_ALL -> "AllOf"
      [] w = W_ANY -> "AnyOf"

OfStarters == {W_SUM, W_DIFF, W_PRODUKT, W_QUOSHUNT, W_MOD, W_BIGGR, W_SMALLR,
               W_BOTH, W_EITHER, W_WON, W_ALL, W_ANY}

\* a speculative match: hit with the token and the clone's position to
\* commit (*self = clone), or no hit, the clone dropped
Hit(tag, p) == [hit |-> TRUE, tok |-> Kw(tag), pos |-> p]
NoHit == [hit |-> FALSE, tok |-> Kw("none"), pos |-> 0]

\* a faulty variant: the clone is committed after HAS, whatever follows
CompoundILoose(s, q) ==
    LET w1 == word(s, q)
        w2 == word(s, w1.pos)
    IN  IF w1.word = W_HAS
        THEN (IF w2.word = W_A THEN Hit("IHasA", w2.pos) ELSE Hit("IHasA", w1.pos))
        ELSE NoHit

\* "I": clone.word() == "HAS", then clone.word() == "A"
CompoundI(s, q) ==
    LET w1 == word(s, q)
        w2 == word(s, w1.pos)
    IN  IF w1.word = W_HAS /\ w2.word = W_A THEN Hit("IHasA", w2.pos) ELSE NoHit

\* a faulty variant: "SAEM" taken after any starter
CompoundOfAnySaem(s, w, q) ==
    LET w1 == word(s, q)
    IN  IF w1.word = W_OF THEN Hit(OfToken(w), w1.pos)
        ELSE IF w1.word = W_SAEM THEN Hit("BothSaem", w1.pos)
        ELSE NoHit

\* "SUM" | ... | "ANY": "OF", or "SAEM" if word == "BOTH"
CompoundOf(s, w, q) ==
    LET w1 == word(s, q)
    IN  IF w1.word = W_OF THEN Hit(OfToken(w), w1.pos)
        ELSE IF w1.word = W_SAEM /\ w = W_BOTH THEN Hit("BothSaem", w1.pos)
        ELSE NoHit

\* a faulty variant: the clone is not committed: self stays behind the first word
CompoundWordNoCommit(s, q, second, tag) ==
    LET w1 == word(s, q)
    IN  IF w1.word = second THEN Hit(tag, q) ELSE NoHit

\* "O", "YA", "NO": one following word
CompoundWord(s, q, second, tag) ==
    LET w1 == word(s, q)
    IN  IF w1.word = second THEN Hit(tag, w1.pos) ELSE NoHit

\* the compound arms of the match on the word
Compound(s, w, q) ==
    CASE w = W_I -> CompoundI(s, q)
      [] w \in OfStarters -> CompoundOf(s, w, q)
      [] w = W_O -> CompoundWord(s, q, W_RLYQ, "ORly")
      [] w = W_YA -> CompoundWord(s, q, W_RLY, "YaRly")
      [] w = W_NO -> CompoundWord(s, q, W_WAI, "NoWai")
      [] OTHER -> NoHit

\* the single-word arms of the match on the word ("none": no arm)
SingleKeyword(w) ==
    CASE w = W_ITZ -> "Itz"
      [] w = W_R -> "R"
      [] w = W_NOT -> "Not"
      [] w = W_DIFFRINT -> "Diffrint"
      [] w = W_AN -> "An"
      [] w = W_MKAY -> "Mkay"
      [] w = W_MEBBE -> "Mebbe"
      [] w = W_OIC -> "Oic"
      [] w = W_VISIBLE -> "Visible"
      [] w = W_BANG -> "Exclamation"
      [] w = W_GIMMEH -> "Gimmeh"
      [] OTHER -> "none"

\* a faulty variant: the last character that is no identifier character
RECURSIVE FirstInvalidLast(_)
FirstInvalidLast(w) ==
    IF w = <<>> THEN NoChar
    ELSE IF FirstInvalidLast(Tail(w)) # NoChar THEN FirstInvalidLast(Tail(w))
    ELSE IF IsIdentChar(Head(w)) THEN NoChar
    ELSE Head(w)

\* the first character of the word that is no identifier character
RECURSIVE FirstInvalid(_)
FirstInvalid(w) ==
    IF w = <<>> THEN NoChar
    ELSE IF IsIdentChar(Head(w)) THEN FirstInvalid(Tail(w))
    ELSE Head(w)

\* a faulty variant: the float parse is tried before the integer parse
ClassifyFloatFirst(c, w, q) ==
    IF IsIdentStart(c)
    THEN IF FirstInvalid(w) # NoChar THEN Err(InvalidIdent(FirstInvalid(w)), q)
         ELSE OkSome(Ident(w), q)
    ELSE IF c \in Digit
    THEN IF ParseF64(w).ok THEN OkSome(ValueTok(Numbar(ParseF64(w).v)), q)
         ELSE IF ParseI64(w).ok THEN OkSome(ValueTok(Numbr(ParseI64(w).v)), q)
         ELSE Err(InvalidNumber(w), q)
    ELSE Err(UnknownToken, q)

\* match c: the word by its first character
Classify(c, w, q) ==
    IF IsIdentStart(c)
    THEN IF FirstInvalid(w) # NoChar THEN Err(InvalidIdent(FirstInvalid(w)), q)
         ELSE OkSome(Ident(w), q)
    ELSE IF c \in Digit
    THEN IF ParseI64(w).ok THEN OkSome(ValueTok(Numbr(ParseI64(w).v)), q)
         ELSE IF ParseF64(w).ok THEN OkSome(ValueTok(Numbar(ParseF64(w).v)), q)
         ELSE Err(InvalidNumber(w), q)
    ELSE Err(UnknownToken, q)

\* a faulty variant: the separator is not consumed
SeparatorStuck(p) == OkSome(Kw("Separator"), p)

\* a faulty variant: a newline or comma is taken for the end of input
SeparatorEnds(p) == OkNone(p + 1)

\* a faulty variant: the separator takes the character after it with it
SeparatorGreedy(p) == OkSome(Kw("Separator"), p + 2)

\* c == '\n' || c == ',': self.iter.next(), Separator
Separator(p) == OkSome(Kw("Separator"), p + 1)

\* a failed TLDR check: the position of the 'T', the position word() leaves,
\* the position the loop goes on from
Check(at, end, resume) == [at |-> at, end |-> end, resume |-> resume]

\* a faulty variant: the end of input ends the comment
RECURSIVE BlockCommentLenient(_, _)
BlockCommentLenient(s, p) ==
    LET pk == peek(s, p)
    IN  IF pk.c = NoChar THEN [closed |-> TRUE, pos |-> pk.pos, checks |-> <<>>]
        ELSE IF pk.c = "T"
        THEN LET w == word(s, pk.pos)
                 rest == BlockCommentLenient(s, Advance(s, w.pos))
             IN  IF w.word = W_TLDR
                 THEN [closed |-> TRUE, pos |-> w.pos, checks |-> <<>>]
                 ELSE [rest EXCEPT !.checks =
                          <<Check(pk.pos, w.pos, Advance(s, w.pos))>> \o @]
        ELSE BlockCommentLenient(s, Advance(s, pk.pos))

\* a faulty variant: any word read at a 'T' ends the comment
RECURSIVE BlockCommentAnyT(_, _)
BlockCommentAnyT(s, p) ==
    LET pk == peek(s, p)
    IN  IF pk.c = NoChar THEN [closed |-> FALSE, pos |-> pk.pos, checks |-> <<>>]
        ELSE IF pk.c = "T"
        THEN [closed |-> TRUE, pos |-> word(s, pk.pos).pos, checks |-> <<>>]
        ELSE BlockCommentAnyT(s, Advance(s, pk.pos))

\* a faulty variant: after a failed check the loop goes on right behind the word
RECURSIVE BlockCommentNoSkip(_, _)
BlockCommentNoSkip(s, p) ==
    LET pk == peek(s, p)
    IN  IF pk.c = NoChar THEN [closed |-> FALSE, pos |-> pk.pos, checks |-> <<>>]
        ELSE IF pk.c = "T"
        THEN LET w == word(s, pk.pos)
                 rest == BlockCommentNoSkip(s, w.pos)
             IN  IF w.word = W_TLDR
                 THEN [closed |-> TRUE, pos |-> w.pos, checks |-> <<>>]
                 ELSE [rest EXCEPT !.checks = <<Check(pk.pos, w.pos, w.pos)>> \o @]
        ELSE BlockCommentNoSkip(s, Advance(s, pk.pos))

\* "OBTW": the loop looking for TLDR; closed with the position after the
\* word TLDR, or not closed when peek() meets the end of input; checks are
\* the words read at a 'T' that were not TLDR
RECURSIVE BlockComment(_, _)
BlockComment(s, p) ==
    LET pk == peek(s, p)
    IN  IF pk.c = NoChar THEN [closed |-> FALSE, pos |-> pk.pos, checks |-> <<>>]
        ELSE IF pk.c = "T"
        THEN LET w == word(s, pk.pos)
                 rest == BlockComment(s, Advance(s, w.pos))
             IN  IF w.word = W_TLDR
                 THEN [closed |-> TRUE, pos |-> w.pos, checks |-> <<>>]
                 ELSE [rest EXCEPT !.checks =
                          <<Check(pk.pos, w.pos, Advance(s, w.pos))>> \o @]
        ELSE BlockComment(s, Advance(s, pk.pos))

\* one call of next() with the iterator at p
RECURSIVE next(_, _)
next(s, p) ==
    LET pk == peek(s, p)
        c == pk.c
    IN  IF c = NoChar THEN OkNone(pk.pos)
        ELSE IF c = QUOTE THEN StringLoop(s, pk.pos + 1, <<>>)
        ELSE IF c = LF \/ c = "," THEN Separator(pk.pos)
        ELSE LET w == word(s, pk.pos)
                 m == Compound(s, w.word, w.pos)
                 bc == BlockComment(s, w.pos)
             IN  IF w.word = W_BTW THEN next(s, LineComment(s, w.pos))
                 ELSE IF w.word = W_OBTW
                      THEN IF bc.closed THEN next(s, bc.pos)
                           ELSE Err(UnclosedComment, bc.pos)
                 ELSE IF m.hit THEN OkSome(m.tok, m.pos)
                 ELSE IF SingleKeyword(w.word) # "none"
                      THEN OkSome(Kw(SingleKeyword(w.word)), w.pos)
                 ELSE Classify(c, w.word, w.pos)

(***************************************************************************)
(* tokenize                                                                *)
(***************************************************************************)
\* Result<Vec<Token>>
RetOk(ts) == [kind |-> "Ok", tokens |-> ts, err |-> NoError]
RetErr(e) == [kind |-> "Err", tokens |-> <<>>, err |-> e]
Running == [kind |-> "running", tokens |-> <<>>, err |-> NoError]

\* the while-let loop, from iterator position p with ts pushed so far
RECURSIVE TokenizeLoop(_, _, _)
TokenizeLoop(s, p, ts) ==
    LET r == next(s, p)
    IN  IF r.res = "Err" THEN RetErr(r.err)
        ELSE IF r.res = "None" THEN RetOk(ts)
        ELSE TokenizeLoop(s, r.pos, Append(ts, r.tok))

tokenize(s) == TokenizeLoop(s, 0, <<>>)

(***************************************************************************)
(* Value::cast_troof                                                       *)
(***************************************************************************)
cast_troof(v) ==
    CASE v.ty = "Noob" -> FALSE
      [] v.ty = "Yarn" -> v.str = <<>>
      [] v.ty = "Numbr" -> v.int.d = <<>>
      [] v.ty = "Numbar" -> v.flt.cls = "zero"
      [] v.ty = "Troof" -> v.b

(***************************************************************************)
(* Bounds and the inputs drawn within them                                 *)
(***************************************************************************)
\* characters after the opening quote of a generated string literal
MaxStrLen == 3
\* words of a generated keyword sentence, of a comment sentence, of a
\* sentence of other words
MaxKwWords == 3
MaxCmtWords == 3
MaxMiscWords == 2
\* magnitude of a generated number, length of a generated Yarn
MaxNum == 12
MaxYarnLen == 2
\* characters of a generated text of words and separators
MaxSepLen == 4
\* characters of a generated word
MaxWordLen == 3
\* calls of next() that a caller makes after the first Ok(None)
MaxEndCalls == 2

RECURSIVE Tails(_, _, _)
\* the texts of at most n words of W, each followed by a delimiter of D
Tails(W, D, n) ==
    IF n = 0 THEN {<<>>}
    ELSE {<<>>} \cup {w \o d \o t : w \in W, d \in D, t \in Tails(W, D, n - 1)}

\* the texts of at most n words, each followed by a delimiter of D: the
\* first a word of F, the second a word of W, the others words of T
Sentences(F, W, T, D, n) ==
    IF n = 0 THEN {<<>>}
    ELSE {f \o d \o t :
            f \in F, d \in D,
            t \in IF n = 1 THEN {<<>>}
                  ELSE {<<>>} \cup {w \o e \o u : w \in W, e \in D, u \in Tails(T, D, n - 2)}}

StrChars == {":", ")", ">", "o", QUOTE, "x", " "}
StrInputs ==
    {<<QUOTE>> \o b : b \in UNION {[1..k -> StrChars] : k \in 0..MaxStrLen}}

Starters == OfStarters \cup {W_I, W_O, W_YA, W_NO}
KwRest == {W_OF, W_SAEM, W_HAS, W_A, W_RLYQ, W_RLY, W_WAI, <<"2">>}
KwTail == {W_A, <<"2">>}
KwInputs ==
    Sentences(Starters \cup {<<"X">>}, KwRest, KwTail, {<<" ">>, <<",">>}, MaxKwWords)

CmtWords == {W_A, W_BTW, W_OBTW, W_TLDR, <<"T">>, <<"x","T","L","D","R">>}
CmtTail == {W_A, W_TLDR, <<"T">>}
CmtInputs == Sentences(CmtWords, CmtWords, CmtTail, {<<" ">>, <<LF>>}, MaxCmtWords)

MiscWords ==
    {W_ITZ, W_R, W_NOT, W_DIFFRINT, W_AN, W_MKAY, W_MEBBE, W_OIC, W_VISIBLE,
     W_BANG, W_GIMMEH, <<"4","2">>, <<"4",".","2">>, <<"4","a">>,
     <<"x","_","1">>, <<"F","-","B">>, <<"?">>, <<QUOTE,"y",QUOTE>>}
MiscRest == {W_R, <<"4","2">>, <<"4","a">>, <<QUOTE,"y",QUOTE>>}
MiscInputs ==
    Sentences(MiscWords, MiscRest, MiscRest, {<<" ">>, <<LF>>, <<TAB>>}, MaxMiscWords)

\* the inputs of the tests of the source
T_strings ==
    <<" ",QUOTE,"H","e","l","l","o"," ","W","o","r","l","d"," ",":",")"," ",
    "H","o","w"," ","a","r","e"," ","y","o","u"," ",":",">","?"," ","I","'",
    "m",":",":"," ",":",QUOTE,"f","i","n","e",":",QUOTE,QUOTE," ">>
T_assign ==
    <<"I"," ","H","A","S"," ","A"," ","V","A","R"," ","I","T","Z"," ","1",
    "2"," "," "," "," "," "," "," "," "," "," "," ","B","T","W"," ","t","h",
    "i","s"," ","i","s"," ","a"," ","c","o","m","m","e","n","t">>
T_sum_of ==
    <<"S","U","M"," ","O","F"," ","O","B","T","W"," ","h","i"," ","T","L",
    "D","R"," ","2"," ","A","N"," ","4">>
T_ifs ==
    <<"B","O","T","H"," ","S","A","E","M"," ","1"," ","A","N"," ","1",",",
    " ","O"," ","R","L","Y","?",LF," "," "," "," "," "," "," "," "," "," ",
    " "," "," "," "," "," "," "," "," "," ","Y","A"," ","R","L","Y",","," ",
    "R","E","S","U","L","T"," ","R"," ",QUOTE,"Y","E","S",QUOTE,LF," "," ",
    " "," "," "," "," "," "," "," "," "," "," "," "," "," "," "," "," "," ",
    "M","E","B","B","E"," ","B","O","T","H"," ","S","A","E","M"," ","1"," ",
    "A","N"," ","2",","," ","R","E","S","U","L","T"," ","R"," ",QUOTE,"C",
    "L","O","S","E",QUOTE,LF," "," "," "," "," "," "," "," "," "," "," ",
    " "," "," "," "," "," "," "," "," ","N","O"," ","W","A","I",","," ","R",
    "E","S","U","L","T"," ","R"," ",QUOTE,"N","O",QUOTE,LF," "," "," "," ",
    " "," "," "," "," "," "," "," "," "," "," "," ","O","I","C">>
S_SumOf ==
    <<"S","U","M"," ","O","F"," ","2"," ","A","N"," ","4">>
S_Assign ==
    <<"I"," ","H","A","S"," ","A"," ","V","A","R"," ","I","T","Z"," ","1",
    "2">>
S_Hi ==
    <<QUOTE,"H","i",":",")"," ",":",">","t","h","e","r","e",":","o",":",
    QUOTE,"e","n","d",":",QUOTE,":",QUOTE>>
S_FooBar ==
    <<"F","O","O","-","B","A","R">>
S_IHasB ==
    <<"I"," ","H","A","S"," ","B">>
S_LineComment ==
    <<"A"," ","B","T","W"," ","c",LF,"B">>
S_Block ==
    <<"A"," ","O","B","T","W"," ","T"," ","T","L","D","R"," ","B">>
TestInputs == {T_strings, T_assign, T_sum_of, T_ifs}
\* the inputs of the documented scenarios
DocInputs == {S_SumOf, S_Assign, S_Hi, S_FooBar, S_Block, S_IHasB, S_LineComment}

Inputs == StrInputs \cup KwInputs \cup CmtInputs \cup MiscInputs \cup TestInputs
          \cup DocInputs \cup {<<>>}

\* texts of words A and separators, at most MaxSepLen characters
SepChars == {"A", ",", LF, " ", TAB}
SepInputs == UNION {[1..k -> SepChars] : k \in 0..MaxSepLen}

\* words that start like an identifier, at most MaxWordLen characters
IdentFirst == {"a", "Z", "_"}
IdentChars == {"a", "Z", "_", "1", "-", "?"}
IdentInputs ==
    {<<f>> \o r : f \in IdentFirst,
                  r \in UNION {[1..k -> IdentChars] : k \in 0..(MaxWordLen - 1)}}

\* words that start with a digit, at most MaxWordLen characters, and the
\* numbers at the ends of the i64 range
NumFirst == {"4", "0"}
NumChars == {"2", "0", ".", "a", "e", "-"}
NumInputs ==
    {<<f>> \o r : f \in NumFirst,
                  r \in UNION {[1..k -> NumChars] : k \in 0..(MaxWordLen - 1)}}
    \cup {I64MaxDigits, I64MinDigits}

\* sentences of a compound starter and the words after it, with a space, a
\* comma or a newline after each word
ForkStarters == {W_I, W_SUM, W_BOTH, W_O}
ForkRest == {W_OF, W_SAEM, W_HAS, W_A, W_RLYQ, <<"B">>}
ForkTail == {W_A, <<"B">>}
ForkInputs ==
    Sentences(ForkStarters, ForkRest, ForkTail, {<<" ">>, <<",">>, <<LF>>}, MaxKwWords)

ScanInputs == SepInputs \cup IdentInputs \cup NumInputs \cup CmtInputs \cup ForkInputs
              \cup DocInputs

RECURSIVE NatDigits(_)
NatDigits(n) == IF n = 0 THEN <<>> ELSE NatDigits(n \div 10) \o <<DigitSeq[(n % 10) + 1]>>

Values ==
    {Noob, Troof(TRUE), Troof(FALSE)}
    \cup {Yarn(y) : y \in UNION {[1..k -> {"a", "0"}] : k \in 0..MaxYarnLen}}
    \cup {Numbr(Int64(neg /\ n # 0, NatDigits(n))) : neg \in BOOLEAN, n \in 0..MaxNum}
    \cup {Numbar(MkFlt(NatDigits(n), e)) : n \in 0..MaxNum, e \in {-1, 0, 1}}
    \cup {Numbar([MkFlt(NatDigits(n), 0) EXCEPT !.neg = TRUE]) : n \in 0..MaxNum}
    \cup {Numbar(Flt(c, neg, <<>>, 0)) : c \in {"inf", "nan"}, neg \in BOOLEAN}

(***************************************************************************)
(* The state machine: tokenize(input) one call of next() at a time, and a  *)
(* Value with the result of cast_troof                                     *)
(***************************************************************************)
Init ==
    /\ input \in Inputs
    /\ pos = 0
    /\ tokens = <<>>
    /\ ret = Running
    /\ calls = <<>>
    /\ val = Noob
    /\ troof = <<>>

\* what the log keeps of a call: the position before it and its result
Call(p, r) == [from |-> p, r |-> r]

\* while let Some(token) = tokenizer.next()? { tokens.push(token); }
TokenizePush ==
    LET r == next(input, pos)
    IN  /\ ret = Running
        /\ r.res = "Some"
        /\ tokens' = Append(tokens, r.tok)
        /\ pos' = r.pos
        /\ calls' = Append(calls, Call(pos, r))
        /\ UNCHANGED <<input, ret, val, troof>>

\* next() is Ok(None): the loop ends, Ok(tokens)
TokenizeReturn ==
    LET r == next(input, pos)
    IN  /\ ret = Running
        /\ r.res = "None"
        /\ ret' = RetOk(tokens)
        /\ pos' = r.pos
        /\ calls' = Append(calls, Call(pos, r))
        /\ UNCHANGED <<input, tokens, val, troof>>

\* a faulty variant: an error ends the loop like the end of input does
TokenizeFailPartial ==
    LET r == next(input, pos)
    IN  /\ ret = Running
        /\ r.res = "Err"
        /\ ret' = RetOk(tokens)
        /\ pos' = r.pos
        /\ calls' = Append(calls, Call(pos, r))
        /\ UNCHANGED <<input, tokens, val, troof>>

\* next() is Err(e): the ? operator returns Err(e) and tokens is dropped
TokenizeFail ==
    LET r == next(input, pos)
    IN  /\ ret = Running
        /\ r.res = "Err"
        /\ ret' = RetErr(r.err)
        /\ pos' = r.pos
        /\ calls' = Append(calls, Call(pos, r))
        /\ UNCHANGED <<input, tokens, val, troof>>

Next == TokenizePush \/ TokenizeReturn \/ TokenizeFail

Spec == Init /\ [][Next]_vars

\* tokenize on the texts of separators, words, numbers and comments
ScanInit ==
    /\ input \in ScanInputs
    /\ pos = 0
    /\ tokens = <<>>
    /\ ret = Running
    /\ calls = <<>>
    /\ val = Noob
    /\ troof = <<>>

ScanSpec == ScanInit /\ [][Next]_vars

\* a Tokenizer over the input, before the first call of next()
NextInit ==
    /\ input \in SepInputs \cup CmtInputs \cup DocInputs
    /\ pos = 0
    /\ tokens = <<>>
    /\ ret = Running
    /\ calls = <<>>
    /\ val = Noob
    /\ troof = <<>>

\* the calls so far that returned Ok(None)
EndCalls == {i \in 1..Len(calls) : calls[i].r.res = "None"}

\* tokenizer.next(), called by a caller that goes on after Err and after
\* Ok(None)
CallNext ==
    LET r == next(input, pos)
    IN  /\ Cardinality(EndCalls) <= MaxEndCalls
        /\ pos' = r.pos
        /\ calls' = Append(calls, Call(pos, r))
        /\ UNCHANGED <<input, tokens, ret, val, troof>>

NextNext == CallNext

NextSpec == NextInit /\ [][NextNext]_vars

ValueInit ==
    /\ input = <<>>
    /\ pos = 0
    /\ tokens = <<>>
    /\ ret = Running
    /\ calls = <<>>
    /\ val \in Values
    /\ troof = <<>>

\* self.cast_troof()
CastTroof ==
    /\ troof' = <<cast_troof(val)>>
    /\ UNCHANGED <<input, pos, tokens, ret, calls, val>>

ValueNext == CastTroof

ValueSpec == ValueInit /\ [][ValueNext]_vars

(***************************************************************************)
(* Properties                                                              *)
(***************************************************************************)
Done == ret # Running
LastCall == calls[Len(calls)]
\* the tokens the calls of next() returned, in order
Returned == [i \in 1..(Len(calls) - 1) |-> calls[i].r.tok]

\* C1: tokenize terminates on every input: every call of next() either ends
\* the loop (Ok(None) or Err) or returns a token and has consumed at least
\* one character, so that the tokens are never more than the characters
\* consumed, which are never more than the input has.
C1_TokenizeTerminates ==
    /\ [][Done' \/ (tokens' # tokens /\ pos' > pos)]_vars
    /\ [](Len(tokens) <= pos /\ pos <= Len(input))

\* tokenize has returned after two tokens or more
C1_Witness == ret.kind = "Ok" /\ Len(tokens) >= 2

\* A string literal read by the words of the escape table, from the
\* character after its opening quote: how it ends ("closed" by an unescaped
\* quote, "eof" before one, "eof_escape" right after a ':', "unknown" escape
\* character c), the decoded text, the position after it.
RECURSIVE Literal(_, _, _)
Literal(s, p, acc) ==
    IF p >= Len(s) THEN [end |-> "eof", str |-> acc, c |-> NoChar, pos |-> p]
    ELSE IF s[p + 1] = QUOTE
    THEN [end |-> "closed", str |-> acc, c |-> NoChar, pos |-> p + 1]
    ELSE IF s[p + 1] # ":" THEN Literal(s, p + 1, Append(acc, s[p + 1]))
    ELSE IF p + 1 >= Len(s)
    THEN [end |-> "eof_escape", str |-> acc, c |-> NoChar, pos |-> p + 1]
    ELSE LET e == s[p + 2]
         IN  CASE e = ")" -> Literal(s, p + 2, Append(acc, LF))
               [] e = ">" -> Literal(s, p + 2, Append(acc, TAB))
               [] e = "o" -> Literal(s, p + 2, Append(acc, BEL))
               [] e = QUOTE -> Literal(s, p + 2, Append(acc, QUOTE))
               [] e = ":" -> Literal(s, p + 2, Append(acc, ":"))
               [] OTHER -> [end |-> "unknown", str |-> acc, c |-> e, pos |-> p + 2]

\* where the token that next() returns from p starts: the first significant
\* character after the comments the call skips
RECURSIVE TokenStart(_, _)
TokenStart(s, p) ==
    LET pk == peek(s, p)
        w == word(s, pk.pos)
        bc == BlockComment(s, w.pos)
    IN  IF pk.c \in {NoChar, QUOTE, LF, ","} THEN pk.pos
        ELSE IF w.word = W_BTW THEN TokenStart(s, LineComment(s, w.pos))
        ELSE IF w.word = W_OBTW
             THEN IF bc.closed THEN TokenStart(s, bc.pos) ELSE Len(s)
        ELSE pk.pos

StartPos(i) == TokenStart(input, calls[i].from)
StartChar(i) == IterPeek(input, StartPos(i))
\* the calls of next() that met a string literal, and the literal of each
StringCalls == {i \in 1..Len(calls) : StartChar(i) = QUOTE}
LiteralOf(i) == Literal(input, StartPos(i) + 1, <<>>)

\* C2: a string literal that meets the end of input before its closing
\* quote, or right after a ':', makes next() return Err(UnclosedString), and
\* next() returns no Yarn for a literal without closing quote.
C2_UnclosedStringIsError ==
    \A i \in StringCalls :
        /\ LiteralOf(i).end \in {"eof", "eof_escape"}
              => calls[i].r.res = "Err" /\ calls[i].r.err = UnclosedString
        /\ (calls[i].r.res = "Some" /\ calls[i].r.tok.value.ty = "Yarn")
              => LiteralOf(i).end = "closed"

\* C3: tokenize is fail-fast: it returns Err(e) exactly when a call of next()
\* returned Err(e), that call is the last one made, no token goes to the
\* caller with the error; otherwise it returns Ok with the tokens of the
\* calls in their order, and next() is called no more once it returned
\* Err or Ok(None).
C3_FailFast ==
    /\ \A i \in 1..(Len(calls) - 1) : calls[i].r.res = "Some"
    /\ ret.kind = "Err" <=> (calls # <<>> /\ LastCall.r.res = "Err")
    /\ ret.kind = "Err" => ret.err = LastCall.r.err /\ ret.tokens = <<>>
    /\ ret.kind = "Ok" <=> (calls # <<>> /\ LastCall.r.res = "None")
    /\ ret.kind = "Ok" => ret.tokens = Returned

\* an error after tokens were scanned
C3_Witness == ret.kind = "Err" /\ Len(calls) >= 3 /\ tokens # <<>>

\* C4: cast_troof: Noob is false; a Numbr or a Numbar is false if and only if
\* it is zero; a Troof is itself; a Yarn is true if and only if it is empty.
C4_CastTroof ==
    troof # <<>> =>
        troof[1] = CASE val.ty = "Noob" -> FALSE
                     [] val.ty = "Numbr" -> val.int.d # <<>>
                     [] val.ty = "Numbar" -> val.flt.cls # "zero"
                     [] val.ty = "Troof" -> val.b
                     [] val.ty = "Yarn" -> val.str = <<>>

\* a source text followed by " BTW " and a comment text
WithLineComment(s, c) == s \o <<" ","B","T","W"," ">> \o c
\* comment texts without a newline
CommentTexts ==
    {<<>>, <<"c">>, <<QUOTE>>, <<"O","B","T","W">>, <<"x"," ","T","L","D","R"," ","y">>}

\* the scan ended inside a string literal that the end of input left open,
\* or inside a block comment without its TLDR
EndsOpen ==
    \/ \E i \in StringCalls : LiteralOf(i).end \in {"eof", "eof_escape"}
    \/ ret.kind = "Err" /\ ret.err = UnclosedComment

\* C5 (as claimed): for every source text and every comment text without a
\* newline, tokenize("<code> BTW <comment>") returns what tokenize("<code>")
\* returns.
C5_LineCommentInvisible ==
    Done => \A c \in CommentTexts : tokenize(WithLineComment(input, c)) = ret

\* C5 (amended): the same, for every source text whose scan does not end
\* inside a string literal left open or a block comment left open.
C5_LineCommentInvisibleWhenClosed ==
    (Done /\ ~EndsOpen) =>
        \A c \in CommentTexts : tokenize(WithLineComment(input, c)) = ret

\* tokens were returned, the last of them a closed string literal, and the
\* comment is appended to that
C5_Witness ==
    /\ ret.kind = "Ok" /\ Len(tokens) >= 2 /\ ~EndsOpen
    /\ tokens[Len(tokens)].value.ty = "Yarn"
    /\ tokenize(WithLineComment(input, <<QUOTE>>)) = ret

\* a prefix and a suffix around " OBTW <body> TLDR "
WithBlockComment(a, body, b) ==
    a \o <<" ","O","B","T","W"," ">> \o body \o <<" ","T","L","D","R"," ">> \o b
\* comment bodies: words, none of them TLDR
CommentBodies == {<<"h","i">>, <<"T">>, <<"h","i"," ","T","O">>}
\* a text that tokenizes to one token or more
TokenProducing(a) == tokenize(a).kind = "Ok" /\ tokenize(a).tokens # <<>>

\* C6: for every token-producing prefix a and suffix b and every comment
\* body of words other than TLDR, tokenize("<a> OBTW <body> TLDR <b>")
\* returns the tokens of tokenize("<a> <b>"): those of a, then those of b.
C6_BlockCommentInvisible ==
    Done =>
        \A k \in 1..Len(input) :
            LET a == SubSeq(input, 1, k - 1)
                b == SubSeq(input, k + 1, Len(input))
            IN  (/\ input[k] = " "
                 /\ TokenProducing(a) /\ TokenProducing(b)
                 /\ ret = RetOk(tokenize(a).tokens \o tokenize(b).tokens))
                => \A body \in CommentBodies :
                       tokenize(WithBlockComment(a, body, b)) = ret

\* C7: a string literal decodes by the escape table: ':)' LF, ':>' TAB, ':o'
\* BEL, ':"' a quote that does not close, '::' a colon; ':' before any other
\* character c is Err(UnknownEscape(c)); other characters are kept and the
\* first unescaped quote closes the literal, one Value(Yarn(decoded)).
C7_EscapeTable ==
    \A i \in StringCalls :
        /\ LiteralOf(i).end = "closed"
              => calls[i].r = OkSome(ValueTok(Yarn(LiteralOf(i).str)), LiteralOf(i).pos)
        /\ LiteralOf(i).end = "unknown"
              => /\ calls[i].r.res = "Err"
                 /\ calls[i].r.err = UnknownEscape(LiteralOf(i).c)

\* a closed literal with an escaped quote and a tab in it
C7_Witness ==
    \E i \in StringCalls :
        /\ LiteralOf(i).end = "closed"
        /\ calls[i].r.res = "Some"
        /\ \E j, k \in 1..Len(calls[i].r.tok.value.str) :
               /\ calls[i].r.tok.value.str[j] = QUOTE
               /\ calls[i].r.tok.value.str[k] = TAB

HiClaimed ==
    <<"H","i",LF," ",TAB,"t","h","e","r","e",BEL,QUOTE,"e","n","d",QUOTE>>
HiDecoded ==
    <<"H","i",LF," ",TAB,"t","h","e","r","e",BEL,QUOTE,"e","n","d",QUOTE,
    QUOTE>>

Completions(w) ==
    CASE w = W_I -> {<<W_HAS, W_A>>}
      [] w = W_BOTH -> {<<W_OF>>, <<W_SAEM>>}
      [] w = W_O -> {<<W_RLYQ>>}
      [] w = W_YA -> {<<W_RLY>>}
      [] w = W_NO -> {<<W_WAI>>}
      [] OTHER -> {<<W_OF>>}

\* the token of a compound
CompoundToken(w, comp) ==
    CASE w = W_I -> "IHasA"
      [] w = W_BOTH /\ comp = <<W_SAEM>> -> "BothSaem"
      [] w = W_O -> "ORly"
      [] w = W_YA -> "YaRly"
      [] w = W_NO -> "NoWai"
      [] w = W_SUM -> "SumOf"
      [] w = W_DIFF -> "DiffOf"
      [] w = W_PRODUKT -> "ProduktOf"
      [] w = W_QUOSHUNT -> "QuoshuntOf"
      [] w = W_MOD -> "ModOf"
      [] w = W_BIGGR -> "BiggrOf"
      [] w = W_SMALLR -> "SmallrOf"
      [] w = W_BOTH -> "BothOf"
      [] w = W_EITHER -> "EitherOf"
      [] w = W_WON -> "WonOf"
      [] w = W_ALL -> "AllOf"
      [] w = W_ANY -> "AnyOf"

\* the n words word() reads from q, and the position after them
RECURSIVE Following(_, _, _)
Following(s, q, n) ==
    IF n = 0 THEN [words |-> <<>>, pos |-> q]
    ELSE LET w == word(s, q)
             f == Following(s, w.pos, n - 1)
         IN  [words |-> <<w.word>> \o f.words, pos |-> f.pos]

\* the calls of next() whose token starts with a compound starter word
StarterCalls ==
    {i \in 1..Len(calls) :
        /\ StartChar(i) \notin {NoChar, QUOTE, LF, ","}
        /\ word(input, StartPos(i)).word \in Starters}
StarterOf(i) == word(input, StartPos(i))
\* the completion that follows the starter of call i, if one does
Completed(i) ==
    {comp \in Completions(StarterOf(i).word) :
        Following(input, StarterOf(i).pos, Len(comp)).words = comp}

\* C9: a compound starter that the completing words do not follow is
\* returned as Ident(starter), the cursor after the starter: no error, no
\* compound token, no other compound rule.
C9_CompoundFallback ==
    \A i \in StarterCalls :
        Completed(i) = {} =>
            calls[i].r = OkSome(Ident(StarterOf(i).word), StarterOf(i).pos)

\* I HAS with another word than A after it has been scanned as Ident(I)
C9_Witness ==
    \E i \in StarterCalls :
        /\ StarterOf(i).word = W_I
        /\ Following(input, StarterOf(i).pos, 2).words = <<W_HAS, <<"2">>>>
        /\ calls[i].r.res = "Some"
        /\ calls[i].r.tok = Ident(W_I)

\* a text without its spaces and tabs
RECURSIVE Squeeze(_)
Squeeze(s) ==
    IF s = <<>> THEN <<>>
    ELSE IF is_space(Head(s)) THEN Squeeze(Tail(s))
    ELSE <<Head(s)>> \o Squeeze(Tail(s))

RECURSIVE Flatten(_)
Flatten(ws) == IF ws = <<>> THEN <<>> ELSE Head(ws) \o Flatten(Tail(ws))

\* C10: a compound whose words are all there is returned as its one token,
\* and the call consumes the words of the compound with the spaces and tabs
\* around them and nothing else: the cursor is at the first significant
\* character after the last word; SUM OF 2 AN 4 is SumOf, Numbr 2, An,
\* Numbr 4.
C10_CompoundCommit ==
    /\ \A i \in StarterCalls :
           \A comp \in Completed(i) :
               /\ calls[i].r.res = "Some"
               /\ calls[i].r.tok = Kw(CompoundToken(StarterOf(i).word, comp))
               /\ Squeeze(SubSeq(input, StartPos(i) + 1, calls[i].r.pos))
                      = StarterOf(i).word \o Flatten(comp)
               /\ ~is_space(IterPeek(input, calls[i].r.pos))
    /\ (input = S_SumOf /\ Done) =>
           ret = RetOk(<<Kw("SumOf"), ValueTok(Numbr(Int64(FALSE, <<"2">>))),
                         Kw("An"), ValueTok(Numbr(Int64(FALSE, <<"4">>)))>>)

\* O RLY? has been scanned as one token with a word after it left to scan
C10_Witness ==
    \E i \in StarterCalls :
        /\ StarterOf(i).word = W_O
        /\ Completed(i) # {}
        /\ calls[i].r.tok = Kw("ORly")
        /\ calls[i].r.pos < Len(input)

\* the calls of next() that returned Separator
SeparatorCalls ==
    {i \in 1..Len(calls) : calls[i].r.res = "Some" /\ calls[i].r.tok = Kw("Separator")}
\* the newlines and commas of the input
SeparatorChars == {k \in 1..Len(input) : input[k] \in {LF, ","}}
\* no call met a string literal or skipped a comment
PlainText ==
    /\ StringCalls = {}
    /\ \A i \in 1..Len(calls) : StartPos(i) = trim(input, calls[i].from)

\* C11: a newline or comma met as the next significant character is returned
\* as one Separator, the cursor right after that character; a Separator is
\* returned for a newline or comma only, never for a space or tab; so a text
\* without literals and comments has as many Separators as newlines and
\* commas: separators in a row are not collapsed.
C11_Separator ==
    /\ \A i \in 1..Len(calls) :
           StartChar(i) \in {LF, ","}
               => calls[i].r = OkSome(Kw("Separator"), StartPos(i) + 1)
    /\ \A i \in SeparatorCalls :
           /\ input[calls[i].r.pos] \in {LF, ","}
           /\ StartPos(i) = calls[i].r.pos - 1
    /\ (ret.kind = "Ok" /\ PlainText)
           => Cardinality(SeparatorCalls) = Cardinality(SeparatorChars)

\* two separators in a row were returned as two tokens, a token after them
C11_Witness ==
    /\ ret.kind = "Ok" /\ PlainText
    /\ \E i \in SeparatorCalls :
           /\ i + 1 \in SeparatorCalls
           /\ calls[i + 1].r.pos = calls[i].r.pos + 1
           /\ i + 2 < Len(calls)

\* the words an arm of the match on the word names
Keywords ==
    Starters \cup {W_BTW, W_OBTW, W_ITZ, W_R, W_NOT, W_DIFFRINT, W_AN, W_MKAY,
                   W_MEBBE, W_OIC, W_VISIBLE, W_BANG, W_GIMMEH}
\* the calls of next() whose token is a word, and that word
WordCalls == {i \in 1..Len(calls) : StartChar(i) \notin {NoChar, QUOTE, LF, ","}}
WordOf(i) == word(input, StartPos(i))
\* the places of a word where no letter, digit or underscore stands
Offending(w) == {k \in 1..Len(w) : ~IsIdentChar(w[k])}
Leftmost(K) == CHOOSE k \in K : \A j \in K : k <= j

\* C12: a word that is no keyword and starts with a letter or underscore is
\* returned as Ident(word) if all its characters are letters, digits or
\* underscores, and else is Err(InvalidIdent(c)), c the leftmost character
\* of the word that is none of those; FOO-BAR is InvalidIdent('-').
C12_IdentValidation ==
    /\ \A i \in WordCalls :
           (IsIdentStart(StartChar(i)) /\ WordOf(i).word \notin Keywords)
               => calls[i].r =
                      IF Offending(WordOf(i).word) = {}
                      THEN OkSome(Ident(WordOf(i).word), WordOf(i).pos)
                      ELSE Err(InvalidIdent(
                               WordOf(i).word[Leftmost(Offending(WordOf(i).word))]),
                               WordOf(i).pos)
    /\ (input = S_FooBar /\ Done) => ret = RetErr(InvalidIdent("-"))

\* a word with two different offending characters was rejected for the first
C12_Witness ==
    \E i \in WordCalls :
        /\ IsIdentStart(StartChar(i))
        /\ calls[i].r.res = "Err"
        /\ \E j, k \in Offending(WordOf(i).word) :
               /\ j < k /\ WordOf(i).word[j] # WordOf(i).word[k]
               /\ calls[i].r.err = InvalidIdent(WordOf(i).word[j])

\* the calls of next() whose token is a word that starts with a digit
NumberCalls == {i \in WordCalls : StartChar(i) \in Digit}
\* digits '.' digits
IsDecimal(w) ==
    \E k \in 2..(Len(w) - 1) :
        /\ w[k] = "."
        /\ \A j \in 1..Len(w) : j # k => w[j] \in Digit
\* the characters a number is written with
NumberChars == Digit \cup {".", "e", "E", "+", "-"}

\* C13: a word that starts with a digit is never an Ident or UnknownToken;
\* all digits within the i64 range, it is Numbr of its decimal value, the
\* integer parse first; digits '.' digits, it is a Numbar (4.2 is 42e-1);
\* with a character no number is written with (4a), it is
\* Err(InvalidNumber(word)), and every error carries the word as written.
C13_NumericClassification ==
    \A i \in NumberCalls :
        LET w == WordOf(i).word
            r == calls[i].r
        IN  /\ r.pos = WordOf(i).pos
            /\ r.res = "Some" => r.tok.tag = "Value" /\ r.tok.value.ty \in {"Numbr", "Numbar"}
            /\ r.res = "Err" => r.err = InvalidNumber(w)
            /\ r.res # "None"
            /\ (AllDigits(w) /\ Len(w) <= 8)
                   => r = OkSome(ValueTok(Numbr(Int64(FALSE, NatDigits(DigitsToNat(w))))),
                                 WordOf(i).pos)
            /\ w = I64MaxDigits => r.res = "Some" /\ r.tok = ValueTok(Numbr(Int64(FALSE, w)))
            /\ IsDecimal(w) => r.res = "Some" /\ r.tok.value.ty = "Numbar"
            /\ w = <<"4", ".", "2">>
                   => r.res = "Some" /\ r.tok = ValueTok(Numbar(Flt("fin", FALSE, <<"4", "2">>, -1)))
            /\ (\E k \in 1..Len(w) : w[k] \notin NumberChars) => r.res = "Err"

\* 4.2 was returned as a Numbar
C13_Witness ==
    \E i \in NumberCalls :
        /\ IsDecimal(WordOf(i).word)
        /\ calls[i].r.res = "Some"
        /\ calls[i].r.tok.value.ty = "Numbar"
        /\ ret.kind = "Ok"

\* the comments a call of next() from p skips, in order: for each its kind,
\* the position after its opening word, the position after it, whether it
\* was closed, the failed TLDR checks in it
RECURSIVE Skipped(_, _)
Skipped(s, p) ==
    LET pk == peek(s, p)
        w == word(s, pk.pos)
        lc == LineComment(s, w.pos)
        bc == BlockComment(s, w.pos)
    IN  IF pk.c \in {NoChar, QUOTE, LF, ","} THEN <<>>
        ELSE IF w.word = W_BTW
        THEN <<[kind |-> "BTW", from |-> w.pos, to |-> lc, closed |-> TRUE,
                checks |-> <<>>]>> \o Skipped(s, lc)
        ELSE IF w.word = W_OBTW
        THEN <<[kind |-> "OBTW", from |-> w.pos, to |-> bc.pos, closed |-> bc.closed,
                checks |-> bc.checks]>>
             \o (IF bc.closed THEN Skipped(s, bc.pos) ELSE <<>>)
        ELSE <<>>

SkippedBy(i) == Skipped(input, calls[i].from)
\* the block comments among them
BlockComments(i) == {k \in 1..Len(SkippedBy(i)) : SkippedBy(i)[k].kind = "OBTW"}
\* the characters T L D R stand in a row somewhere after position p
HasTLDR(s, p) == \E k \in (p + 1)..(Len(s) - 3) : SubSeq(s, k, k + 3) = W_TLDR

\* C14: once OBTW was read, reaching the end of input with no TLDR matched
\* makes next() return Err(UnclosedComment), no Ok(None) and no token; so it
\* does whenever T L D R does not occur after the OBTW; and next() returns
\* that error for no other reason.
C14_UnclosedComment ==
    \A i \in 1..Len(calls) :
        /\ \A k \in BlockComments(i) :
               /\ ~SkippedBy(i)[k].closed
                      => calls[i].r = Err(UnclosedComment, Len(input))
               /\ ~HasTLDR(input, SkippedBy(i)[k].from)
                      => calls[i].r = Err(UnclosedComment, Len(input))
        /\ (calls[i].r.res = "Err" /\ calls[i].r.err = UnclosedComment)
               => /\ BlockComments(i) # {}
                  /\ ~SkippedBy(i)[Len(SkippedBy(i))].closed

\* after a token, a comment without T L D R in it made the scan fail
C14_Witness ==
    /\ ret = RetErr(UnclosedComment)
    /\ tokens # <<>>
    /\ \E k \in BlockComments(Len(calls)) :
           ~HasTLDR(input, SkippedBy(Len(calls))[k].from)

\* the input after position p
Rest(p) == SubSeq(input, p + 1, Len(input))
\* what tokenize returns when the first n calls returned tokens and the
\* text after them tokenizes to r
Continued(n, r) ==
    IF r.kind = "Ok" THEN RetOk(SubSeq(Returned, 1, n) \o r.tokens) ELSE r

\* C15: when the lookahead after a compound starter fails, the call leaves
\* the cursor after the starter word and the spaces and tabs behind it,
\* whether the fork read one word or two, and the scan goes on as a scan of
\* the text from there: the words the fork read come as tokens of their
\* own; I HAS B is Ident I, Ident HAS, Ident B.
C15_ForkDiscarded ==
    /\ \A i \in StarterCalls :
           Completed(i) = {} =>
               LET p == trim(input, StartPos(i) + Len(StarterOf(i).word))
               IN  /\ calls[i].r.res = "Some"
                   /\ calls[i].r.pos = p
                   /\ Done => ret = Continued(i, tokenize(Rest(p)))
    /\ (input = S_IHasB /\ Done)
           => ret = RetOk(<<Ident(W_I), Ident(W_HAS), Ident(<<"B">>)>>)

\* the fork read HAS and a word other than A, and both came as tokens
C15_Witness ==
    /\ ret.kind = "Ok"
    /\ \E i \in StarterCalls :
           /\ StarterOf(i).word = W_I
           /\ Following(input, StarterOf(i).pos, 2).words = <<W_HAS, <<"B">>>>
           /\ Len(tokens) >= i + 2
           /\ tokens[i + 1] = Ident(W_HAS)
           /\ tokens[i + 2] = Ident(<<"B">>)

\* the position before the spaces and tabs that end at position p
RECURSIVE BackSpaces(_, _)
BackSpaces(s, p) == IF p > 0 /\ is_space(s[p]) THEN BackSpaces(s, p - 1) ELSE p
\* the closed block comments of all calls, each with the end q of the text
\* that closed it: the last character before the spaces and tabs the
\* comment ends with
ClosedBlocks ==
    UNION {{[c |-> SkippedBy(i)[k], q |-> BackSpaces(input, SkippedBy(i)[k].to)] :
               k \in 1..Len(SkippedBy(i))} : i \in 1..Len(calls)}
\* only spaces and tabs stand between the start of its line and position p
FirstOnLine(p) ==
    \A k \in 1..p : (\A j \in k..p : input[j] # LF) => is_space(input[k])

\* C16 (as claimed): a block comment is closed only by the word TLDR standing
\* first on its line: the four characters before the end of the comment are
\* T L D R and nothing but spaces and tabs stands before them on their line.
C16_ClosedByLineStartTLDR ==
    \A b \in ClosedBlocks :
        (b.c.kind = "OBTW" /\ b.c.closed) =>
            /\ b.q - 4 >= b.c.from
            /\ SubSeq(input, b.q - 3, b.q) = W_TLDR
            /\ FirstOnLine(b.q - 4)

\* C16 (amended): a block comment is closed only by the characters T L D R
\* at the end of a word: they stand after the OBTW, a space, a tab, a
\* newline, a comma or the end of input follows them, and the comment ends
\* after the spaces and tabs behind them; they may stand anywhere on a line
\* and be the tail of a longer word.
C16_ClosedByTLDRAtWordEnd ==
    \A b \in ClosedBlocks :
        (b.c.kind = "OBTW" /\ b.c.closed) =>
            /\ b.q - 4 >= b.c.from
            /\ SubSeq(input, b.q - 3, b.q) = W_TLDR
            /\ IterPeek(input, b.q) \in {NoChar, " ", TAB, LF, ","}
            /\ b.c.to = trim(input, b.q)

\* a comment was closed by the tail of a longer word, and a token came
\* after it
C16_Witness ==
    /\ ret.kind = "Ok" /\ tokens # <<>>
    /\ \E b \in ClosedBlocks :
           /\ b.c.kind = "OBTW" /\ b.c.closed
           /\ b.q - 4 > b.c.from
           /\ ~is_space(input[b.q - 4])
           /\ input[b.q - 4] # LF
           /\ b.c.to < Len(input)

\* the end of the run of characters from position p that has no space, tab,
\* newline or comma in it
WordEnd(s, p) ==
    CHOOSE e \in p..Len(s) :
        /\ IterPeek(s, e) \in {NoChar, " ", TAB, LF, ","}
        /\ \A k \in (p + 1)..e : s[k] \notin {" ", TAB, LF, ","}
\* the block comments of all calls
AllBlocks ==
    UNION {{SkippedBy(i)[k] : k \in BlockComments(i)} : i \in 1..Len(calls)}
\* the positions at which the scan of block comment c looked for TLDR
Examined(c) ==
    {c.checks[n].at : n \in 1..Len(c.checks)}
    \cup (IF c.closed THEN {BackSpaces(input, c.to) - 4} ELSE {})

\* C17: in a block comment, a failed TLDR check, at a 'T' whose word is not
\* TLDR, consumes the word, the spaces and tabs after it, and one character
\* more if there is one; that character is never looked at as a start of
\* TLDR; so A OBTW T TLDR B is Err(UnclosedComment).
C17_FailedCheckSkipsOne ==
    /\ \A c \in AllBlocks :
           \A n \in 1..Len(c.checks) :
               LET ch == c.checks[n]
                   e == WordEnd(input, ch.at)
               IN  /\ input[ch.at + 1] = "T"
                   /\ SubSeq(input, ch.at + 1, e) # W_TLDR
                   /\ ch.end = trim(input, e)
                   /\ ch.resume = IF ch.end < Len(input) THEN ch.end + 1 ELSE ch.end
                   /\ ch.end \notin Examined(c)
                   /\ \A x \in Examined(c) : x <= ch.at \/ x >= ch.resume
    /\ (input = S_Block /\ Done) => ret = RetErr(UnclosedComment)

\* the character dropped after a failed check was the T of a TLDR, and the
\* comment stayed open
C17_Witness ==
    /\ ret = RetErr(UnclosedComment)
    /\ \E c \in AllBlocks :
           \E n \in 1..Len(c.checks) :
               /\ c.checks[n].end + 4 <= Len(input)
               /\ SubSeq(input, c.checks[n].end + 1, c.checks[n].end + 4) = W_TLDR
               /\ c.checks[n].resume = c.checks[n].end + 1

\* the line comments call i skipped
LineComments(i) == {k \in 1..Len(SkippedBy(i)) : SkippedBy(i)[k].kind = "BTW"}
\* the position after the first newline behind position p, the end of the
\* input if there is none
LineEnd(s, p) ==
    IF \E k \in (p + 1)..Len(s) : s[k] = LF
    THEN CHOOSE k \in (p + 1)..Len(s) :
             s[k] = LF /\ \A j \in (p + 1)..(k - 1) : s[j] # LF
    ELSE Len(s)

\* C18: a BTW comment takes every character up to and with the newline that
\* ends it, or up to the end of input, and is no token: the call that meets
\* it goes on behind it, through any number of comment lines, and a
\* Separator it returns is not that newline; A BTW c <newline> B is Ident A,
\* Ident B.
C18_LineCommentConsumed ==
    /\ \A i \in 1..Len(calls) :
           \A k \in LineComments(i) :
               LET c == SkippedBy(i)[k]
               IN  /\ c.to = LineEnd(input, c.from)
                   /\ calls[i].r.pos >= c.to
                   /\ calls[i].r.res = "Some" => calls[i].r.pos > c.to
    /\ (input = S_LineComment /\ Done)
           => ret = RetOk(<<Ident(W_A), Ident(<<"B">>)>>)

\* one call skipped two comment lines and returned the word after them
C18_Witness ==
    /\ ret.kind = "Ok"
    /\ \E i \in 1..Len(calls) :
           /\ Cardinality(LineComments(i)) >= 2
           /\ calls[i].r.res = "Some"
           /\ calls[i].r.tok.tag = "Ident"

\* where the text that call i found no token in starts: behind the last
\* comment the call skipped
AfterComments(i) ==
    IF SkippedBy(i) = <<>> THEN calls[i].from
    ELSE SkippedBy(i)[Len(SkippedBy(i))].to

\* C19: once next() has returned Ok(None), every later call returns Ok(None);
\* and next() returns Ok(None) only when, behind the comments the call
\* skipped, nothing but spaces and tabs is left, with all the input
\* consumed.
C19_EndIsStable ==
    /\ \A i \in EndCalls : \A j \in i..Len(calls) : j \in EndCalls
    /\ \A i \in EndCalls :
           /\ calls[i].r.pos = Len(input)
           /\ \A k \in (AfterComments(i) + 1)..Len(input) : is_space(input[k])

\* after tokens and a comment, Ok(None) was returned, and again by the
\* calls after it
C19_Witness ==
    \E i \in EndCalls :
        /\ i > 1
        /\ SkippedBy(i) # <<>>
        /\ Len(calls) >= i + MaxEndCalls
        /\ calls[Len(calls)].r.res = "None"

\* the compounds of the starter of call i that a newline or comma cuts: the
\* first k words of the completion follow the starter and then, at
\* position at, comes a newline or comma
Cut(i) ==
    UNION {{[k |-> k, at |-> Following(input, StarterOf(i).pos, k).pos] :
               k \in {n \in 0..(Len(comp) - 1) :
                         /\ Following(input, StarterOf(i).pos, n).words = SubSeq(comp, 1, n)
                         /\ IterPeek(input, Following(input, StarterOf(i).pos, n).pos)
                                \in {LF, ","}}} :
           comp \in Completions(StarterOf(i).word)}

\* C20: no compound reaches over a newline or comma: word() stops before it
\* and consumes nothing, the lookahead reads an empty word there, the
\* starter is returned as an Ident, the words of the compound before the cut
\* come as Idents, and the newline or comma is returned as a Separator by the
\* call after them (SUM <newline> OF, I HAS,A, O <newline> RLY?).
C20_NoCompoundAcrossSeparator ==
    \A i \in StarterCalls :
        \A x \in Cut(i) :
            /\ word(input, x.at) = [word |-> <<>>, pos |-> x.at]
            /\ calls[i].r = OkSome(Ident(StarterOf(i).word), StarterOf(i).pos)
            /\ Done => Len(calls) > i + x.k
            /\ \A j \in (i + 1)..(i + x.k) :
                   j <= Len(calls)
                       => calls[j].r.res = "Some" /\ calls[j].r.tok.tag = "Ident"
            /\ Len(calls) > i + x.k
                   => calls[i + x.k + 1].r = OkSome(Kw("Separator"), x.at + 1)

\* I HAS,A was scanned: Ident I, Ident HAS, Separator, Ident A
C20_Witness ==
    /\ ret.kind = "Ok"
    /\ \E i \in StarterCalls :
           /\ StarterOf(i).word = W_I
           /\ \E x \in Cut(i) : x.k = 1 /\ input[x.at + 1] = ","
           /\ Len(tokens) >= i + 3
           /\ SubSeq(tokens, i, i + 3)
                  = <<Ident(W_I), Ident(W_HAS), Kw("Separator"), Ident(W_A)>>

====
